---- MODULE Spec2Model ----
(***************************************************************************)
(* Weather-station simulation (semaforos.py): a bounded history guarded by *)
(* one lock, a generator thread appending one reading per second, a logger *)
(* thread writing the latest reading to a CSV file every 5 seconds, and    *)
(* the Tk update loop reading snapshots once per second.                   *)
(*                                                                         *)
(* Time.  `now' counts whole seconds and advances only when every thread   *)
(* is suspended (time.sleep, Event.wait, root.after): the statements       *)
(* between two suspensions take no whole second.  `micro' is the sub-second*)
(* part of the wall clock read by datetime.now(); it advances while a      *)
(* reading has been stamped and not yet appended, the only place where the *)
(* clock is read and its value used later.  The wall clock is taken to be  *)
(* non-decreasing.                                                         *)
(***************************************************************************)
EXTENDS Integers, Sequences, FiniteSets, TLC

\* ---------------------------------------------------------------- bounds
Cap == 2              \* capacity of the history (maxlen)
MaxTime == 10         \* seconds after which time stops unless a stop is pending
MaxMicro == 1         \* sub-second clock readings per second: 0..MaxMicro
MaxTimeLive == 6      \* seconds the run under fair scheduling lasts
MaxTimeN == 1         \* seconds the concurrency harness runs

\* ------------------------------------------------------- program constants
GenPeriodMut == 1 + 1
GenPeriod == 1        \* time.sleep(1)
LogPeriod == 5        \* evento_parada.wait(5)
GuiPeriod == 1        \* root.after(1000, update_loop)

\* ------------------------------------------------------------------ state
VARIABLES
    gens,         \* generator threads of this run
    readers,      \* update-loop threads of this run
    history,      \* compartido['history']
    lock,         \* compartido['lock']: the holder, or NoHolder
    stop,         \* evento_parada
    now, micro,   \* wall clock
    pc,           \* position of every thread
    timer,        \* remaining seconds of a suspended thread
    muestra,      \* generator local: the stamped reading
    ticks,        \* generator local: readings built so far
    escribir_cabecera, leida,         \* logger locals
    parcial, llamada,                 \* list(deque) result, call site
    historial, hist, dibujado, desc,  \* update-loop locals
    fileExists, file,                 \* the CSV destination
    \* history variables (observers only, never read by the program)
    appended,     \* every reading appended, in append order
    logWrites,    \* every line the logger wrote, in write order
    existedAtStart,  \* os.path.exists(ruta_csv) as the logger saw it
    esperas,      \* period waits of the logger that timed out
    startupHist,  \* the history at the logger's startup read
    deletes,      \* removals of the destination by an external actor
    stopAt,       \* value of now when the stop was set
    afterStop,    \* appends / writes per thread since the stop was set
    leidoEn,      \* number of appends made before each read of the logger
    copiaEn,      \* number of appends made before the two copies of a round
    \* the values of the readings (hundredths; the walk in thousandths)
    temperatura, humedad, presion,    \* generator locals, lines 49-61
    valores,      \* generator local: the rounded values of muestra, line 64
    pasos,        \* ticks of the walk
    serie, tendencia                  \* describe_trend: argument and result

vars == <<gens, readers, history, lock, stop, now, micro, pc, timer, muestra,
          ticks, escribir_cabecera, leida, parcial, llamada, historial,
          hist, dibujado, desc, fileExists, file, appended, logWrites,
          existedAtStart, esperas, startupHist, deletes, stopAt, afterStop,
          leidoEn, copiaEn, temperatura, humedad, presion, valores, pasos,
          serie, tendencia>>

\* the state of the threads, the buffer and the file
threadVars == <<gens, readers, history, lock, stop, now, micro, pc, timer,
                muestra, ticks, escribir_cabecera, leida, parcial, llamada,
                historial, hist, dibujado, desc, fileExists, file, appended,
                logWrites, existedAtStart, esperas, startupHist, deletes,
                stopAt, afterStop, leidoEn, copiaEn>>

\* the values of the readings: no thread's control flow reads them
valueVars == <<temperatura, humedad, presion, valores, pasos, serie, tendencia>>

Logger == "log"
NoHolder == "libre"
None == [kind |-> "none"]
Header == [kind |-> "header"]
OldRow == [kind |-> "row", ts |-> <<0, 0>>, gen |-> "old", n |-> 0]

Threads == gens \cup readers \cup {Logger}

Min(a, b) == IF a < b THEN a ELSE b

\* order of two timestamps <<second, sub-second>>
TsLeq(a, b) == a[1] < b[1] \/ (a[1] = b[1] /\ a[2] <= b[2])

\* the last k elements of s
LastN(s, k) == SubSeq(s, Len(s) - k + 1, Len(s))

\* ---------------------------------------------------------- SampleBuffer
\* deque(maxlen).append: append on the right, discard from the left when full
DequeAppendNoEvict(h, m, maxlen) == Append(h, m)
DequeAppendLeft(h, m, maxlen) ==
    IF Len(h) >= maxlen THEN <<m>> \o SubSeq(h, 1, maxlen - 1) ELSE <<m>> \o h
DequeAppendUnder(h, m, maxlen) ==
    IF h = <<>> THEN <<m>>
    ELSE SubSeq(h, IF Len(h) >= maxlen THEN 2 ELSE 1, Len(h) - 1)
             \o <<m, h[Len(h)]>>
DequeAppend(h, m, maxlen) ==
    IF maxlen = 0 THEN h
    ELSE IF Len(h) >= maxlen THEN Append(Tail(h), m)
    ELSE Append(h, m)

\* threading.Lock.acquire can proceed
LockFreeMut == TRUE
LockFree == lock = NoHolder

\* the lock after a with block is left, by its end or by a return inside it
LockAfterExitMut == lock
LockAfterExitEmpty ==
    IF pc[Logger] = "unlock" /\ leida = None THEN lock ELSE NoHolder
LockAfterExit == NoHolder

\* the deque after history[-1] (line 37) or list(history) (line 43)
TrasLeerPop(h) == IF h = <<>> THEN h ELSE SubSeq(h, 1, Len(h) - 1)
TrasLeer(h) == h

\* ultima: history[-1] if history else None
UltimaDeOldest(h) == IF h # <<>> THEN h[1] ELSE None
UltimaDeStale(h) == IF Len(h) >= 2 THEN h[Len(h) - 1] ELSE None
UltimaDe(h) == IF h # <<>> THEN h[Len(h)] ELSE None

\* list(history): a new list object holding the elements copied
ListOfAlias(items) == [alias |-> TRUE, items |-> items]
ListOf(items) == [alias |-> FALSE, items |-> items]

\* the elements a list reference denotes now
View(l) == IF l = None THEN <<>> ELSE IF l.alias THEN history ELSE l.items

\* ------------------------------------------------------- SampleGenerator
\* the tuple built at lines 63-64: stamped with datetime.now()
Reading(g) == [kind |-> "muestra", ts |-> <<now, micro>>, gen |-> g,
               n |-> ticks[g] + 1]

\* while not evento_parada.is_set()
SigueBucleMut(s) == TRUE
SigueBucle(s) == ~s

AtLoopHead(g) == pc[g] = "loop" \/ (pc[g] = "sleep" /\ timer[g] = 0)

\* lines 53-64: test the stop event, build and stamp the reading
GenCheck(g) ==
    /\ g \in gens /\ AtLoopHead(g)
    /\ IF SigueBucle(stop)
       THEN /\ muestra' = [muestra EXCEPT ![g] = Reading(g)]
            /\ ticks' = [ticks EXCEPT ![g] = @ + 1]
            /\ pc' = [pc EXCEPT ![g] = "lock"]
       ELSE /\ pc' = [pc EXCEPT ![g] = "done"]
            /\ UNCHANGED <<muestra, ticks>>
    /\ UNCHANGED <<gens, readers, history, lock, stop, now, micro, timer,
                   escribir_cabecera, leida, parcial, llamada, historial,
                   hist, dibujado, desc, fileExists, file, appended, logWrites,
                   existedAtStart, esperas, startupHist, deletes, stopAt,
                   afterStop,
                   valueVars, leidoEn, copiaEn>>

\* agregar_muestra, line 30: with compartido['lock']
GenAcquire(g) ==
    /\ g \in gens /\ pc[g] = "lock" /\ LockFree
    /\ lock' = g
    /\ pc' = [pc EXCEPT ![g] = "append"]
    /\ UNCHANGED <<gens, readers, history, stop, now, micro, timer, muestra,
                   ticks, escribir_cabecera, leida, parcial, llamada,
                   historial, hist, dibujado, desc, fileExists, file, appended,
                   logWrites, existedAtStart, esperas, startupHist, deletes,
                   stopAt, afterStop,
                   valueVars, leidoEn, copiaEn>>

\* agregar_muestra, line 31: history.append(muestra)
GenAppend(g) ==
    /\ g \in gens /\ pc[g] = "append"
    /\ history' = DequeAppend(history, muestra[g], Cap)
    /\ appended' = Append(appended, muestra[g])
    /\ afterStop' = [afterStop EXCEPT ![g] = IF stop THEN @ + 1 ELSE @]
    /\ pc' = [pc EXCEPT ![g] = "unlock"]
    /\ UNCHANGED <<gens, readers, lock, stop, now, micro, timer, muestra,
                   ticks, escribir_cabecera, leida, parcial, llamada,
                   historial, hist, dibujado, desc, fileExists, file,
                   logWrites, existedAtStart, esperas, startupHist, deletes,
                   stopAt,
                   valueVars, leidoEn, copiaEn>>

\* leaving the with block of agregar_muestra, then time.sleep(1), line 67
GenRelease(g) ==
    /\ g \in gens /\ pc[g] = "unlock"
    /\ lock' = LockAfterExit
    /\ pc' = [pc EXCEPT ![g] = "sleep"]
    /\ timer' = [timer EXCEPT ![g] = GenPeriod]
    /\ UNCHANGED <<gens, readers, history, stop, now, micro, muestra, ticks,
                   escribir_cabecera, leida, parcial, llamada, historial,
                   hist, dibujado, desc, fileExists, file, appended, logWrites,
                   existedAtStart, esperas, startupHist, deletes, stopAt,
                   afterStop,
                   valueVars, leidoEn, copiaEn>>

\* --------------------------------------------------------- DurableLogger
\* line 78: escribir_cabecera = not os.path.exists(ruta_csv)
CabeceraInicialMut(existe) == FALSE
CabeceraInicial(existe) == ~existe

\* lines 81 and 92: the reading is not None
HayMuestraMut(m) == FALSE
HayMuestra(m) == m # None

\* lines 84-86 and 96-98: the flag after a write
CabeceraTrasEscribirMut(flag) == flag
CabeceraTrasEscribir(flag) == IF flag THEN FALSE ELSE flag

\* line 88 and 100: [ts.isoformat(sep=" "), temperatura, humedad, presion]
Row(m) == [kind |-> "row", ts |-> m.ts, gen |-> m.gen, n |-> m.n]

\* the lines one with-open block writes
LinesWrittenTwice(flag, m) == <<Row(m), Row(m)>>
LinesWritten(flag, m) == IF flag THEN <<Header, Row(m)>> ELSE <<Row(m)>>

\* lines 71-78
LogInit ==
    /\ pc[Logger] = "init"
    /\ escribir_cabecera' = CabeceraInicial(fileExists)
    /\ existedAtStart' = fileExists
    /\ pc' = [pc EXCEPT ![Logger] = "lock"]
    /\ UNCHANGED <<gens, readers, history, lock, stop, now, micro, timer,
                   muestra, ticks, leida, parcial, llamada, historial,
                   hist, dibujado, desc, fileExists, file, appended, logWrites,
                   esperas, startupHist, deletes, stopAt, afterStop,
                   valueVars, leidoEn, copiaEn>>

\* ultima, line 35: with compartido['lock']
LogAcquire ==
    /\ pc[Logger] = "lock" /\ LockFree
    /\ lock' = Logger
    /\ pc' = [pc EXCEPT ![Logger] = "read"]
    /\ UNCHANGED <<gens, readers, history, stop, now, micro, timer, muestra,
                   ticks, escribir_cabecera, leida, parcial, llamada,
                   historial, hist, dibujado, desc, fileExists, file, appended,
                   logWrites, existedAtStart, esperas, startupHist, deletes,
                   stopAt, afterStop,
                   valueVars, leidoEn, copiaEn>>

\* ultima, lines 36-38
LogRead ==
    /\ pc[Logger] = "read"
    /\ leida' = UltimaDe(history)
    /\ startupHist' = IF esperas = 0 THEN history ELSE startupHist
    /\ pc' = [pc EXCEPT ![Logger] = "unlock"]
    /\ leidoEn' = Append(leidoEn, Len(appended))
    /\ history' = TrasLeer(history)
    /\ UNCHANGED <<gens, readers, lock, stop, now, micro, timer,
                   muestra, ticks, escribir_cabecera, parcial, llamada,
                   historial, hist, dibujado, desc, fileExists, file, appended,
                   logWrites, existedAtStart, esperas, deletes, stopAt,
                   afterStop,
                   valueVars, copiaEn>>

\* leaving the with block of ultima; lines 81 and 92-93; entering wait(5)
LogRelease ==
    /\ pc[Logger] = "unlock"
    /\ lock' = LockAfterExit
    /\ IF HayMuestra(leida)
       THEN /\ pc' = [pc EXCEPT ![Logger] = "write"]
            /\ UNCHANGED timer
       ELSE /\ pc' = [pc EXCEPT ![Logger] = "wait"]
            /\ timer' = [timer EXCEPT ![Logger] = LogPeriod]
    /\ UNCHANGED <<gens, readers, history, stop, now, micro, muestra, ticks,
                   escribir_cabecera, leida, parcial, llamada, historial,
                   hist, dibujado, desc, fileExists, file, appended, logWrites,
                   existedAtStart, esperas, startupHist, deletes, stopAt,
                   afterStop,
                   valueVars, leidoEn, copiaEn>>

\* lines 82-88 and 94-100: open for append, header if flagged, one row
LogWrite ==
    /\ pc[Logger] = "write"
    /\ file' = file \o LinesWritten(escribir_cabecera, leida)
    /\ fileExists' = TRUE
    /\ logWrites' = logWrites \o LinesWritten(escribir_cabecera, leida)
    /\ escribir_cabecera' = CabeceraTrasEscribir(escribir_cabecera)
    /\ afterStop' = [afterStop EXCEPT ![Logger] = IF stop THEN @ + 1 ELSE @]
    /\ pc' = [pc EXCEPT ![Logger] = "wait"]
    /\ timer' = [timer EXCEPT ![Logger] = LogPeriod]
    /\ UNCHANGED <<gens, readers, history, lock, stop, now, micro, muestra,
                   ticks, leida, parcial, llamada, historial, hist,
                   dibujado, desc, appended, existedAtStart, esperas,
                   startupHist, deletes, stopAt,
                   valueVars, leidoEn, copiaEn>>

\* line 89: evento_parada.wait(5) returns True: the event is set
LogWaitStop ==
    /\ pc[Logger] = "wait" /\ stop
    /\ pc' = [pc EXCEPT ![Logger] = "done"]
    /\ UNCHANGED <<gens, readers, history, lock, stop, now, micro, timer,
                   muestra, ticks, escribir_cabecera, leida, parcial,
                   llamada, historial, hist, dibujado, desc, fileExists, file,
                   appended, logWrites, existedAtStart, esperas, startupHist,
                   deletes, stopAt, afterStop,
                   valueVars, leidoEn, copiaEn>>

\* line 89: evento_parada.wait(5) returns False: the 5 seconds elapsed
\* (also when the event is set after the timeout and before the return)
LogWaitTimeout ==
    /\ pc[Logger] = "wait" /\ timer[Logger] = 0
    /\ esperas' = esperas + 1
    /\ pc' = [pc EXCEPT ![Logger] = "lock"]
    /\ UNCHANGED <<gens, readers, history, lock, stop, now, micro, timer,
                   muestra, ticks, escribir_cabecera, leida, parcial,
                   llamada, historial, hist, dibujado, desc, fileExists, file,
                   appended, logWrites, existedAtStart, startupHist, deletes,
                   stopAt, afterStop,
                   valueVars, leidoEn, copiaEn>>

\* ----------------------------------------------------- presentation loop
\* describe_trend as the status line shows it: the fixed text below two entries
DescripcionDe(h) == IF Len(h) < 2 THEN "Recopilando datos..." ELSE "tendencia"

\* update_loop is entered (line 225, or the root.after timer fires) and draw
\* calls obtener_historial, or update_loop calls it after draw;
\* obtener_historial, line 42: with compartido['lock']
GuiAcquire(r) ==
    /\ r \in readers /\ LockFree
    /\ \/ pc[r] = "idle" /\ timer[r] = 0 /\ llamada' = [llamada EXCEPT ![r] = 1]
       \/ pc[r] = "lock" /\ UNCHANGED llamada
    /\ lock' = r
    /\ pc' = [pc EXCEPT ![r] = "copy"]
    /\ UNCHANGED <<gens, readers, history, stop, now, micro, timer, muestra,
                   ticks, escribir_cabecera, leida, parcial, historial, hist,
                   dibujado, desc, fileExists, file, appended, logWrites,
                   existedAtStart, esperas, startupHist, deletes, stopAt,
                   afterStop,
                   valueVars, leidoEn, copiaEn>>

\* obtener_historial, line 43: list(history) copies the elements
GuiCopy(r) ==
    /\ r \in readers /\ pc[r] = "copy"
    /\ parcial' = [parcial EXCEPT ![r] = history]
    /\ pc' = [pc EXCEPT ![r] = "unlock"]
    /\ copiaEn' = [copiaEn EXCEPT ![r][llamada[r]] = Len(appended)]
    /\ history' = TrasLeer(history)
    /\ UNCHANGED <<gens, readers, lock, stop, now, micro, timer,
                   muestra, ticks, escribir_cabecera, leida, llamada,
                   historial, hist, dibujado, desc, fileExists, file, appended,
                   logWrites, existedAtStart, esperas, startupHist, deletes,
                   stopAt, afterStop,
                   valueVars, leidoEn>>

\* leaving the with block of obtener_historial: the list is returned to
\* draw (line 158) or to update_loop (line 219)
GuiRelease(r) ==
    /\ r \in readers /\ pc[r] = "unlock"
    /\ lock' = LockAfterExit
    /\ IF llamada[r] = 1
       THEN /\ historial' = [historial EXCEPT ![r] = ListOf(parcial[r])]
            /\ pc' = [pc EXCEPT ![r] = "draw"]
            /\ UNCHANGED hist
       ELSE /\ hist' = [hist EXCEPT ![r] = ListOf(parcial[r])]
            /\ pc' = [pc EXCEPT ![r] = "describe"]
            /\ UNCHANGED historial
    /\ UNCHANGED <<gens, readers, history, stop, now, micro, timer, muestra,
                   ticks, escribir_cabecera, leida, parcial, llamada,
                   dibujado, desc, fileExists, file, appended, logWrites,
                   existedAtStart, esperas, startupHist, deletes, stopAt,
                   afterStop,
                   valueVars, leidoEn, copiaEn>>

\* draw, lines 159-215: the series plotted are read from historial
GuiDraw(r) ==
    /\ r \in readers /\ pc[r] = "draw"
    /\ dibujado' = [dibujado EXCEPT ![r] = View(historial[r])]
    /\ llamada' = [llamada EXCEPT ![r] = 2]
    /\ pc' = [pc EXCEPT ![r] = "lock"]
    /\ UNCHANGED <<gens, readers, history, lock, stop, now, micro, timer,
                   muestra, ticks, escribir_cabecera, leida, parcial,
                   historial, hist, desc, fileExists, file, appended,
                   logWrites, existedAtStart, esperas, startupHist, deletes,
                   stopAt, afterStop,
                   valueVars, leidoEn, copiaEn>>

\* update_loop, lines 220-223: describe, then re-arm the timer unless stopped
GuiDescribe(r) ==
    /\ r \in readers /\ pc[r] = "describe"
    /\ desc' = [desc EXCEPT ![r] = DescripcionDe(View(hist[r]))]
    /\ IF ~stop
       THEN /\ pc' = [pc EXCEPT ![r] = "idle"]
            /\ timer' = [timer EXCEPT ![r] = GuiPeriod]
       ELSE /\ pc' = [pc EXCEPT ![r] = "done"]
            /\ UNCHANGED timer
    /\ UNCHANGED <<gens, readers, history, lock, stop, now, micro, muestra,
                   ticks, escribir_cabecera, leida, parcial, llamada,
                   historial, hist, dibujado, fileExists, file, appended,
                   logWrites, existedAtStart, esperas, startupHist, deletes,
                   stopAt, afterStop,
                   valueVars, leidoEn, copiaEn>>

\* ------------------------------------------------------------ environment
MaxDeletes == 1       \* removals of the destination by an external actor

\* on_close (line 148) or the KeyboardInterrupt handler (line 245)
SetStop ==
    /\ ~stop
    /\ stop' = TRUE
    /\ stopAt' = now
    /\ UNCHANGED <<gens, readers, history, lock, now, micro, pc, timer,
                   muestra, ticks, escribir_cabecera, leida, parcial,
                   llamada, historial, hist, dibujado, desc, fileExists, file,
                   appended, logWrites, existedAtStart, esperas, startupHist,
                   deletes, afterStop,
                   valueVars, leidoEn, copiaEn>>

\* an external actor removes the destination
DeleteFile ==
    /\ fileExists /\ deletes < MaxDeletes
    /\ fileExists' = FALSE
    /\ file' = <<>>
    /\ deletes' = deletes + 1
    /\ UNCHANGED <<gens, readers, history, lock, stop, now, micro, pc, timer,
                   muestra, ticks, escribir_cabecera, leida, parcial,
                   llamada, historial, hist, dibujado, desc, appended,
                   logWrites, existedAtStart, esperas, startupHist, stopAt,
                   afterStop,
                   valueVars, leidoEn, copiaEn>>

\* a thread that is not running: not started, returned, or ended by an
\* exception
Ended == {"done", "unstarted", "failed"}

\* every thread is suspended with time left, or has returned
Suspended(t) ==
    \/ pc[t] \in Ended
    \/ pc[t] \in {"sleep", "idle"} /\ timer[t] > 0
    \/ pc[t] = "wait" /\ timer[t] > 0 /\ ~stop

Quiescent == \A t \in Threads : Suspended(t)

\* one second passes; after `limit' only while a requested stop is pending
TickTo(limit) ==
    /\ Quiescent
    /\ now < limit \/ (stop /\ \E t \in Threads : pc[t] \notin Ended)
    /\ now' = now + 1
    /\ micro' = 0
    /\ timer' = [t \in Threads |-> IF timer[t] > 0 THEN timer[t] - 1 ELSE 0]
    /\ UNCHANGED <<gens, readers, history, lock, stop, pc, muestra, ticks,
                   escribir_cabecera, leida, parcial, llamada, historial,
                   hist, dibujado, desc, fileExists, file, appended, logWrites,
                   existedAtStart, esperas, startupHist, deletes, stopAt,
                   afterStop,
                   valueVars, leidoEn, copiaEn>>

\* the sub-second clock advances between a stamp and its append
MicroStep ==
    /\ micro < MaxMicro
    /\ \E g \in gens : pc[g] \in {"lock", "append"}
    /\ micro' = micro + 1
    /\ UNCHANGED <<gens, readers, history, lock, stop, now, pc, timer, muestra,
                   ticks, escribir_cabecera, leida, parcial, llamada,
                   historial, hist, dibujado, desc, fileExists, file, appended,
                   logWrites, existedAtStart, esperas, startupHist, deletes,
                   stopAt, afterStop,
                   valueVars, leidoEn, copiaEn>>

\* ------------------------------------------------------------------ runs
\* the destination before the run: absent, or left by an earlier run
InitFile ==
    \/ fileExists = FALSE /\ file = <<>>
    \/ fileExists = TRUE /\ file = <<Header, OldRow>>

InitDelayed(G, R, logging, d) ==
    /\ gens = G /\ readers = R
    /\ history = <<>>
    /\ lock = NoHolder
    /\ stop = FALSE
    /\ now = 0 /\ micro = 0
    /\ pc = [t \in G \cup R \cup {Logger} |->
                IF t \in G THEN (IF d = 0 THEN "loop" ELSE "sleep")
                ELSE IF t \in R THEN "idle"
                ELSE IF logging THEN "init" ELSE "unstarted"]
    /\ timer = [t \in G \cup R \cup {Logger} |-> IF t \in G THEN d ELSE 0]
    /\ muestra = [g \in G |-> None]
    /\ ticks = [g \in G |-> 0]
    /\ escribir_cabecera = FALSE /\ leida = None
    /\ parcial = [r \in R |-> <<>>]
    /\ llamada = [r \in R |-> 1]
    /\ historial = [r \in R |-> None]
    /\ hist = [r \in R |-> None]
    /\ dibujado = [r \in R |-> <<>>]
    /\ desc = [r \in R |-> ""]
    /\ appended = <<>> /\ logWrites = <<>>
    /\ existedAtStart = FALSE
    /\ esperas = 0
    /\ startupHist = <<>>
    /\ deletes = 0
    /\ stopAt = 0
    /\ afterStop = [t \in G \cup {Logger} |-> 0]
    /\ leidoEn = <<>>
    /\ copiaEn = [r \in R |-> <<-1, -1>>]

\* every thread at its first statement
InitWith(G, R, logging) == InitDelayed(G, R, logging, 0)

\* the runs of the threads leave the values of the readings out: a reading
\* is identified by its timestamp, its generator and its tick
SinValores ==
    /\ temperatura = 0 /\ humedad = 0 /\ presion = 0
    /\ valores = None /\ pasos = 0
    /\ serie = <<>> /\ tendencia = None

\* main, lines 229-243: one generator, one logger, one update loop
Init == InitWith({"gen"}, {"gui"}, TRUE) /\ InitFile /\ SinValores

\* the concurrency harness: two appenders and one snapshot reader
InitN ==
    /\ InitWith({"gen", "gen2"}, {"gui"}, FALSE)
    /\ fileExists = FALSE /\ file = <<>>
    /\ SinValores

Next ==
    \/ \E g \in gens : GenCheck(g)
    \/ \E g \in gens : GenAcquire(g)
    \/ \E g \in gens : GenAppend(g)
    \/ \E g \in gens : GenRelease(g)
    \/ LogInit
    \/ LogAcquire
    \/ LogRead
    \/ LogRelease
    \/ LogWrite
    \/ LogWaitStop
    \/ LogWaitTimeout
    \/ \E r \in readers : GuiAcquire(r)
    \/ \E r \in readers : GuiCopy(r)
    \/ \E r \in readers : GuiRelease(r)
    \/ \E r \in readers : GuiDraw(r)
    \/ \E r \in readers : GuiDescribe(r)
    \/ SetStop
    \/ DeleteFile
    \/ TickTo(MaxTime)
    \/ MicroStep

Spec == Init /\ [][Next]_vars

\* the harness runs the appenders and the readers only
NextN ==
    \/ \E g \in gens : GenCheck(g)
    \/ \E g \in gens : GenAcquire(g)
    \/ \E g \in gens : GenAppend(g)
    \/ \E g \in gens : GenRelease(g)
    \/ \E r \in readers : GuiAcquire(r)
    \/ \E r \in readers : GuiCopy(r)
    \/ \E r \in readers : GuiRelease(r)
    \/ \E r \in readers : GuiDraw(r)
    \/ \E r \in readers : GuiDescribe(r)
    \/ TickTo(MaxTimeN)
    \/ MicroStep

SpecN == InitN /\ [][NextN]_vars

\* the scheduler runs every runnable thread, and time passes
GenStep(g) == GenCheck(g) \/ GenAcquire(g) \/ GenAppend(g) \/ GenRelease(g)
LogStep == \/ LogInit \/ LogAcquire \/ LogRead \/ LogRelease \/ LogWrite
           \/ LogWaitStop \/ LogWaitTimeout
GuiStep(r) == \/ GuiAcquire(r) \/ GuiCopy(r) \/ GuiRelease(r) \/ GuiDraw(r)
              \/ GuiDescribe(r)

\* main with the destination absent and left alone, under fair scheduling
InitLive ==
    /\ InitWith({"gen"}, {"gui"}, TRUE)
    /\ fileExists = FALSE /\ file = <<>>
    /\ SinValores

NextLive ==
    \/ GenStep("gen")
    \/ LogStep
    \/ GuiStep("gui")
    \/ SetStop
    \/ TickTo(MaxTimeLive)
    \/ MicroStep

FairSpec ==
    /\ InitLive /\ [][NextLive]_vars
    /\ WF_vars(GenStep("gen"))
    /\ WF_vars(LogStep)
    /\ WF_vars(GuiStep("gui"))
    /\ WF_vars(TickTo(MaxTimeLive))

\* open(ruta_csv, "a") at line 82 or 94 raises OSError: nothing catches it
\* in hilo_registrador, so the thread ends there (threading prints the
\* traceback); the thread is a daemon thread of main and the other threads
\* are not told
LogOpenFails ==
    /\ pc[Logger] = "write"
    /\ pc' = [pc EXCEPT ![Logger] = "failed"]
    /\ UNCHANGED <<gens, readers, history, lock, stop, now, micro, timer,
                   muestra, ticks, escribir_cabecera, leida, parcial, llamada,
                   historial, hist, dibujado, desc, fileExists, file, appended,
                   logWrites, existedAtStart, esperas, startupHist, deletes,
                   stopAt, afterStop, valueVars, leidoEn, copiaEn>>

\* main with a destination that may refuse to be opened
NextIO == NextLive \/ LogOpenFails

SpecIO == InitLive /\ [][NextIO]_vars

\* ------------------------------------------------- the values of a reading
\* Values are integers: hundredths in a reading (round(x, 2), line 64) and
\* thousandths in the generator's locals, which are not rounded.
Centi == 10 * 10
Milli == 10 * Centi
MaxPasos == 2

Max(a, b) == IF a > b THEN a ELSE b

\* lines 59-61: max(lo, min(hi, x))
ClampNone(lo, hi, x) == x
Clamp(lo, hi, x) == Max(lo, Min(hi, x))

\* round(x, 2) of a value in thousandths, in hundredths; the values drawn
\* below are even, so no value lies halfway between two hundredths
Round2(x) == IF x % 10 >= 5 THEN (x \div 10) + 1 ELSE x \div 10

\* lines 49-51, and the values the walk has reached many ticks later, next
\* to either end of the validity range
TemperaturaBase == {15 * Milli, 25 * Milli}
HumedadBase == {40 * Milli, 60 * Milli}
PresionBase == {1000 * Milli, 1025 * Milli}
TemperaturaEnCurso == {300 - 50 * Milli, 60 * Milli - 4}
HumedadEnCurso == {600, 100 * Milli - 4}
PresionEnCurso == {300 * Milli + 400, 1100 * Milli - 4}

\* lines 55-57: random.uniform(-d, d), sampled at both ends and near zero
Perturbacion(d) == {0 - d, 2, d}

\* lines 55-65: one tick of hilo_generador as far as the values go
GenTick ==
    /\ SigueBucle(stop) /\ pasos < MaxPasos
    /\ \E dt \in Perturbacion(Milli \div 2), dh \in Perturbacion(Milli),
          dp \in Perturbacion((8 * Milli) \div 10) :
           /\ temperatura' = Clamp(0 - 50 * Milli, 60 * Milli, temperatura + dt)
           /\ humedad' = Clamp(0, 100 * Milli, humedad + dh)
           /\ presion' = Clamp(300 * Milli, 1100 * Milli, presion + dp)
    /\ valores' = [kind |-> "valores",
                   temperatura |-> Round2(temperatura'),
                   humedad |-> Round2(humedad'),
                   presion |-> Round2(presion')]
    /\ pasos' = pasos + 1
    /\ UNCHANGED <<threadVars, serie, tendencia>>

InitWalk ==
    /\ InitWith({"gen"}, {"gui"}, FALSE)
    /\ fileExists = FALSE /\ file = <<>>
    /\ temperatura \in TemperaturaBase \cup TemperaturaEnCurso
    /\ humedad \in HumedadBase \cup HumedadEnCurso
    /\ presion \in PresionBase \cup PresionEnCurso
    /\ valores = None /\ pasos = 0
    /\ serie = <<>> /\ tendencia = None

SpecWalk == InitWalk /\ [][GenTick]_vars

\* ------------------------------------------------------- describe_trend
\* The values of a reading are Python floats: round(x, 2) is the double
\* nearest to a number of hundredths c / 100.  For 0.25 <= c / 100 < 2048,
\* the range drawn below, the operators that follow compute from c alone how
\* that double differs from c / 100, and with it the outcome of comparing
\* two such doubles' difference with a tolerance.
MaxSerie == 3

RECURSIVE BinadeUp(_, _), BinadeDown(_, _), Pow2Mod(_)
\* the e with 2^e <= c / 100 < 2^(e + 1)
BinadeUp(c, e) == IF Centi * 2 ^ (e + 1) <= c THEN BinadeUp(c, e + 1) ELSE e
BinadeDown(c, k) == IF c * 2 ^ k >= Centi THEN 0 - k ELSE BinadeDown(c, k + 1)
Binade(c) == IF c >= Centi THEN BinadeUp(c, 0) ELSE BinadeDown(c, 0)

\* 2^k modulo 100
Pow2Mod(k) == IF k = 0 THEN 1 ELSE (2 * Pow2Mod(k - 1)) % Centi

\* double(c / 100) - c / 100, in hundredths of the last place of the double
\* (which weighs 2^(Binade(c) - 52)): c * 2^(52 - e) / 100 is rounded to the
\* nearest integer
ErrUlp(c) ==
    LET r == ((c % Centi) * Pow2Mod(52 - Binade(c))) % Centi
    IN  IF r < 50 THEN 0 - r ELSE Centi - r

\* the same difference in units of 2^-54 / 100
Err(c) == ErrUlp(c) * 2 ^ (Binade(c) + 2)

\* lines 116 and 118: b - a > tol on the doubles of b, a and tol; the
\* subtraction of two doubles this close is exact
MayorExacto(a, b, tol) == b - a > tol
Mayor(a, b, tol) ==
    IF b - a # tol THEN b - a > tol ELSE Err(b) - Err(a) > Err(tol)

\* lines 115-120
Trend(a, b, tol) ==
    IF Mayor(a, b, tol) THEN "subiendo"
    ELSE IF Mayor(b, a, tol) THEN "bajando"
    ELSE "estable"

\* lines 122-124, in hundredths
TolTemperatura == 30
TolHumedad == Centi
TolPresion == 30

\* describe_trend, lines 103-127: the parts of the text returned
DescribeTrend(h) ==
    IF Len(h) < 2 THEN [kind |-> "Recopilando datos..."]
    ELSE LET last == h[Len(h)]
             prev == h[Len(h) - 1]
         IN  [kind |-> "tendencias",
              t_tr |-> Trend(prev.t, last.t, TolTemperatura),
              h_tr |-> Trend(prev.h, last.h, TolHumedad),
              p_tr |-> Trend(prev.p, last.p, TolPresion),
              t2 |-> last.t, h2 |-> last.h, p2 |-> last.p]

\* readings as obtener_historial returns them, values in hundredths: a
\* reference, the reading 0.5 / 0.2 / 0.1 above it, the readings one
\* tolerance above and below it, and one well above it
Muestras ==
    {[t |-> 2000, h |-> 5000, p |-> 101000],
     [t |-> 2050, h |-> 5020, p |-> 101010],
     [t |-> 2030, h |-> 5100, p |-> 101030],
     [t |-> 1970, h |-> 4900, p |-> 100970],
     [t |-> 2100, h |-> 5200, p |-> 101100]}

\* update_loop, lines 219-220: desc = describe_trend(hist)
Describe ==
    /\ tendencia = None
    /\ tendencia' = DescribeTrend(serie)
    /\ UNCHANGED <<threadVars, temperatura, humedad, presion, valores,
                   pasos, serie>>

InitTrend ==
    /\ InitWith({"gen"}, {"gui"}, FALSE)
    /\ fileExists = FALSE /\ file = <<>>
    /\ temperatura = 0 /\ humedad = 0 /\ presion = 0
    /\ valores = None /\ pasos = 0
    /\ serie \in UNION {[1..n -> Muestras] : n \in 0..MaxSerie}
    /\ tendencia = None

SpecTrend == InitTrend /\ [][Describe]_vars

\* hilo_registrador beside a generator that makes its first append at once
\* or only after the logger's first period
InitL ==
    /\ \E d \in {0, LogPeriod + 1} : InitDelayed({"gen"}, {"gui"}, TRUE, d)
    /\ fileExists = FALSE /\ file = <<>>
    /\ SinValores

SpecL == InitL /\ [][NextLive]_vars

\* ---------------------------------------------------------------- claims
Expected == LastN(appended, Min(Len(appended), Cap))
SortedByTs(s) == \A i \in 1..Len(s) : \A j \in i..Len(s) : TsLeq(s[i].ts, s[j].ts)
SortedPerGen(s) ==
    \A i \in 1..Len(s) : \A j \in i..Len(s) :
        s[i].gen = s[j].gen => TsLeq(s[i].ts, s[j].ts)
RowsOf(s) == SelectSeq(s, LAMBDA l : l.kind = "row")
Snapshots(r) == {parcial[r], View(historial[r]), View(hist[r])}
Workers == gens \cup {Logger}

\* C1: after n appends to a buffer of capacity Cap the buffer, and a snapshot
\* taken of it, hold exactly the last min(n, Cap) readings appended, oldest
\* first; the length never exceeds Cap.
C1_LastAppended ==
    /\ Len(history) <= Cap
    /\ history = Expected
    /\ \A r \in readers : pc[r] = "unlock" => parcial[r] = Expected

C1_Witness ==
    \E r \in readers :
        /\ pc[r] = "unlock"
        /\ Len(appended) > Cap
        /\ Len(parcial[r]) = Cap
        /\ parcial[r][1] = appended[Len(appended) - Cap + 1]

\* C2 as stated: with N appenders and M readers no reader obtains a snapshot
\* that is unsorted by timestamp or longer than the capacity.
C2_Original ==
    \A r \in readers : \A s \in Snapshots(r) : SortedByTs(s) /\ Len(s) <= Cap

\* C2 amended: no reader obtains a snapshot longer than the capacity, and in
\* every snapshot the readings of any one appender are in timestamp order.
C2_Amended ==
    \A r \in readers : \A s \in Snapshots(r) : SortedPerGen(s) /\ Len(s) <= Cap

C2_Witness ==
    \E r \in readers :
        /\ pc[r] = "unlock"
        /\ Len(parcial[r]) = Cap
        /\ ~SortedByTs(parcial[r])
        /\ Len(appended) > Cap

\* C3: what obtener_historial is about to return is the whole buffer, and
\* what ultima is about to return is its newest entry (None when empty), at
\* the instant the call leaves the lock; at most one operation is inside.
C3_PointInTime ==
    /\ \A r \in readers : pc[r] = "unlock" => parcial[r] = history
    /\ pc[Logger] = "unlock" =>
           leida = IF Len(history) = 0 THEN None ELSE history[Len(history)]
    /\ Cardinality({t \in Threads :
                       pc[t] \in {"append", "copy", "read", "unlock"}}) <= 1

C3_Witness ==
    \E r \in readers : \E g \in gens :
        /\ pc[r] = "unlock" /\ Len(parcial[r]) = Cap
        /\ pc[g] = "lock" /\ pc[Logger] = "lock"

\* C4: a list returned by obtener_historial keeps its length and contents
\* whatever is appended to or evicted from the buffer afterwards.
C4_Independent ==
    [][\A r \in readers :
          /\ historial'[r] = historial[r] =>
                 View(historial[r])' = View(historial[r])
          /\ hist'[r] = hist[r] => View(hist[r])' = View(hist[r])]_vars

C4_Witness ==
    \E r \in readers :
        /\ pc[r] = "draw"
        /\ Len(View(historial[r])) = Cap
        /\ Len(appended) > Cap
        /\ View(historial[r])[1] # history[1]

\* C5 as stated: nothing is appended and nothing is written once the stop
\* has been set.
C5_Original == \A t \in Workers : afterStop[t] = 0

\* C5 amended: once the stop has been set the generator appends at most once
\* more and the logger writes at most once more (the tick or cycle already
\* past its check), and a task that has left its loop does neither.
C5_Amended ==
    \A t \in Workers :
        /\ afterStop[t] <= 1
        /\ (afterStop[t] = 1 /\ t \in gens) => pc[t] \in {"unlock", "sleep", "done"}
        /\ (afterStop[t] = 1 /\ t = Logger) => pc[t] \in {"wait", "done"}

C5_Witness ==
    /\ stop
    /\ \A t \in Workers : afterStop[t] = 1 /\ pc[t] = "done"

\* C6: once the stop is set, generator and logger leave their loops, and do
\* so no later than one second after the second in which it was set.
C6_StopLatency ==
    /\ [](stop => \A t \in Workers : pc[t] # "done" => now <= stopAt + 1)
    /\ (stop ~> \A t \in Workers : pc[t] = "done")

C6_Witness ==
    /\ stop /\ now = stopAt + 1 /\ stopAt > 0
    /\ pc["gen"] = "done" /\ pc[Logger] = "done"
    /\ afterStop["gen"] = 1

\* C7: the logger writes the header at most once, only when the destination
\* did not exist at its start, as its first line and followed by a data row;
\* never again, also when the destination is removed in between.
C7_HeaderOnce ==
    \A i \in 1..Len(logWrites) :
        logWrites[i] = Header =>
            /\ i = 1
            /\ ~existedAtStart
            /\ Len(logWrites) >= 2
            /\ logWrites[2].kind = "row"

C7_Witness ==
    /\ deletes = 1
    /\ Len(logWrites) >= 3 /\ logWrites[1] = Header
    /\ fileExists /\ Len(file) = 1 /\ file[1].kind = "row"

\* C8: from an absent destination left alone by others, after the startup
\* write and two periodic writes the file is one header and three data rows
\* with non-decreasing timestamps.
C8_Scenario ==
    /\ pc[Logger] # "init" /\ ~existedAtStart /\ deletes = 0
    /\ startupHist # <<>>
    /\ esperas = 2
    /\ Len(RowsOf(logWrites)) = 3

C8_FileShape ==
    C8_Scenario =>
        /\ Len(file) = 4
        /\ file[1] = Header
        /\ \A i \in 2..4 : file[i].kind = "row"
        /\ \A i \in 2..3 : TsLeq(file[i].ts, file[i + 1].ts)

C8_Witness == C8_Scenario /\ file[2].ts # file[4].ts

\* C9: until its first period has elapsed the logger has written exactly one
\* data row, the newest reading, if the buffer held a reading when it was
\* read at startup, and nothing at all if the buffer was empty.
C9_StartupWrite ==
    (pc[Logger] \in {"wait", "done"} /\ esperas = 0) =>
        IF startupHist # <<>>
        THEN /\ Len(RowsOf(logWrites)) = 1
             /\ RowsOf(logWrites)[1].ts = startupHist[Len(startupHist)].ts
             /\ RowsOf(logWrites)[1].n = startupHist[Len(startupHist)].n
        ELSE logWrites = <<>>

C9_Witness ==
    /\ pc[Logger] = "wait" /\ esperas = 0 /\ timer[Logger] = LogPeriod
    /\ startupHist # <<>>
    /\ Len(RowsOf(logWrites)) = 1

\* C10 as stated: when the logger enters its first period wait a data row of
\* this run is already in the log, in every interleaving.
C10_Claim ==
    (pc[Logger] = "wait" /\ esperas = 0) => Len(RowsOf(logWrites)) >= 1

\* C17: with the single generator of main the buffer is ordered by timestamp,
\* oldest first, in every reachable state, and the readings are appended in
\* the order in which they were generated.
C17_Ordered ==
    /\ SortedByTs(history)
    /\ \A i \in 1..Len(history) : \A j \in (i + 1)..Len(history) :
           history[i].n < history[j].n
    /\ \A i \in 1..Len(appended) : appended[i].n = i

C17_Witness ==
    /\ gens = {"gen"}
    /\ Len(appended) > Cap /\ Len(history) = Cap
    /\ history[1].ts # history[Cap].ts

\* the program points inside a with compartido['lock'] block
CriticalSection == {"append", "read", "copy", "unlock"}

\* C19: a thread holds the lock only inside one append, ultima or
\* obtener_historial: never while it sleeps for its tick, waits on the stop
\* event or writes the file; a holder is never suspended, so no time passes
\* while a generator is kept waiting for the lock.
C19_LockOnlyInsideOps ==
    /\ \A t \in Threads : lock = t => pc[t] \in CriticalSection
    /\ \A t \in Threads :
           pc[t] \in {"sleep", "wait", "write", "idle", "draw", "describe"}
               => lock # t
    /\ \A g \in gens :
           (pc[g] = "lock" /\ lock # NoHolder) =>
               /\ lock \in (readers \cup {Logger})
               /\ ~Suspended(lock)
               /\ ~Quiescent

C19_Witness ==
    /\ lock = "gui" /\ pc["gui"] = "copy"
    /\ pc["gen"] = "lock"
    /\ pc[Logger] = "wait" /\ timer[Logger] > 0
    /\ Len(logWrites) >= 1

\* C20: every way out of agregar_muestra, ultima (its empty path too) and
\* obtener_historial frees the lock, no thread asks for the lock while it
\* holds it, and a thread that waits for the lock gets it: the holder is
\* inside its operation and finishes it.
C20_Exit ==
    \A t \in Threads :
        /\ (pc[t] = "unlock" /\ pc'[t] # "unlock") =>
               (lock = t /\ lock' = NoHolder)
        /\ (pc'[t] = "lock" /\ pc[t] # "lock") => lock # t
        /\ (pc[t] = "lock" /\ lock # NoHolder) =>
               (lock \in Threads \ {t} /\ pc[lock] \in CriticalSection)

C20_NoDeadlock ==
    /\ [][C20_Exit]_vars
    /\ \A t \in {"gen", "gui", Logger} : (pc[t] = "lock") ~> (lock = t)

C20_Witness ==
    /\ lock = Logger /\ pc[Logger] = "unlock" /\ leida = None
    /\ pc["gen"] = "lock"

\* the k-th snapshot of the current round of update loop r, as returned
Tomada(r, k) == copiaEn[r][k] >= 0
SnapshotAt(r, k) ==
    IF pc[r] = "unlock" /\ llamada[r] = k THEN parcial[r]
    ELSE IF k = 1 THEN View(historial[r]) ELSE View(hist[r])

\* C12: ultima on a buffer never appended to returns None; on a buffer
\* with readings it returns the last element of a snapshot taken with no
\* append in between.
C12_LatestIsLastOfSnapshot ==
    leidoEn # <<>> =>
        LET v == leidoEn[Len(leidoEn)] IN
        /\ (v = 0) = (leida = None)
        /\ \A r \in readers : \A k \in {1, 2} :
               (Tomada(r, k) /\ copiaEn[r][k] = v /\ v > 0) =>
                   /\ SnapshotAt(r, k) # <<>>
                   /\ leida = SnapshotAt(r, k)[Len(SnapshotAt(r, k))]

C12_Witness ==
    /\ leidoEn # <<>> /\ leidoEn[Len(leidoEn)] > Cap
    /\ pc[Logger] = "unlock"
    /\ pc["gui"] = "describe"
    /\ copiaEn["gui"][2] = leidoEn[Len(leidoEn)]
    /\ Len(View(hist["gui"])) = Cap

\* C13: only a generator's append changes the buffer: no step of ultima,
\* obtener_historial, describe_trend, the logger or the update loop does;
\* two snapshots with no append between them are equal.
C13_Frame ==
    /\ history' # history =>
           \E g \in gens : pc[g] = "append" /\ pc'[g] = "unlock"
    /\ \A r \in readers :
           (Tomada(r, 1)' /\ Tomada(r, 2)' /\ copiaEn'[r][1] = copiaEn'[r][2])
               => SnapshotAt(r, 1)' = SnapshotAt(r, 2)'

C13_ReadsDoNotModify == [][C13_Frame]_vars

C13_Witness ==
    /\ pc["gui"] = "describe" /\ pc[Logger] = "write"
    /\ copiaEn["gui"][1] = copiaEn["gui"][2]
    /\ Len(View(hist["gui"])) = Cap
    /\ history = View(hist["gui"])

\* the reads of the logger that found a reading
LecturasConDato == SelectSeq(leidoEn, LAMBDA v : v > 0)

\* C18: every data row the logger writes is the reading ultima returned in
\* that cycle, the newest one appended when the logger read; the readings
\* appended between two reads of the logger are never written.
C18_RowsAreReads ==
    LET rows == RowsOf(logWrites)
        k == Len(rows)
    IN  /\ k <= Len(LecturasConDato)
        /\ Len(LecturasConDato) <= k + 1
        /\ Len(LecturasConDato) = k + 1 => pc[Logger] \in {"unlock", "write"}
        /\ \A i \in 1..k :
               LET m == appended[LecturasConDato[i]] IN
               /\ rows[i].ts = m.ts /\ rows[i].gen = m.gen /\ rows[i].n = m.n
        /\ \A j \in 1..Len(appended) :
               (\E i \in 1..k : rows[i].n = appended[j].n)
                   => \E i \in 1..Len(leidoEn) : leidoEn[i] = j

C18_Witness ==
    /\ Len(RowsOf(logWrites)) >= 2
    /\ RowsOf(logWrites)[2].n > RowsOf(logWrites)[1].n + 1
    /\ Len(appended) > RowsOf(logWrites)[2].n

\* C11: in a periodic cycle of the logger (a wait of 5 s has timed out) a
\* read that finds the buffer empty is followed by no write at all, neither
\* header nor row, and a read that finds a reading by exactly one data row.
C11_Cycle ==
    /\ (pc[Logger] = "unlock" /\ pc'[Logger] # "unlock" /\ esperas >= 1) =>
           IF leida = None
           THEN /\ pc'[Logger] = "wait"
                /\ logWrites' = logWrites
                /\ file' = file /\ fileExists' = fileExists
           ELSE pc'[Logger] = "write"
    /\ (pc[Logger] = "write" /\ pc'[Logger] # "write" /\ esperas >= 1) =>
           /\ RowsOf(logWrites') = Append(RowsOf(logWrites), Row(leida))
           /\ RowsOf(file') = Append(RowsOf(file), Row(leida))
           /\ pc'[Logger] = "wait"
    /\ logWrites' # logWrites => pc[Logger] = "write"

C11_PeriodicCycle == [][C11_Cycle]_vars

C11_Witness ==
    /\ esperas = 1 /\ pc[Logger] = "wait" /\ timer[Logger] = LogPeriod
    /\ leidoEn = <<0, 0>>
    /\ logWrites = <<>> /\ ~fileExists
    /\ ~stop

\* C14: whatever the base values and the perturbations of each tick, every
\* reading the generator builds and appends has its temperature in
\* [-50, 60], its humidity in [0, 100] and its pressure in [300, 1100].
C14_Clamped ==
    valores # None =>
        /\ 0 - 50 * Centi <= valores.temperatura
        /\ valores.temperatura <= 60 * Centi
        /\ 0 <= valores.humedad /\ valores.humedad <= 100 * Centi
        /\ 300 * Centi <= valores.presion
        /\ valores.presion <= 1100 * Centi

C14_Witness ==
    /\ pasos >= 2
    /\ valores.temperatura = 60 * Centi
    /\ valores.humedad = 0
    /\ valores.presion = 300 * Centi

\* the classification of the claim, on the decimal values themselves
TrendExacto(a, b, tol) ==
    IF b - a > tol THEN "subiendo"
    ELSE IF a - b > tol THEN "bajando"
    ELSE "estable"

\* C15 as stated: for a history of two or more entries each quantity is
\* rising iff last - previous > tolerance, falling iff previous - last >
\* tolerance and stable otherwise, a difference equal to the tolerance being
\* stable, with tolerances 0.3, 1.0 and 0.3; only the last two entries count.
C15_Claim ==
    (tendencia # None /\ Len(serie) >= 2) =>
        LET a == serie[Len(serie) - 1]
            b == serie[Len(serie)]
        IN  /\ tendencia.kind = "tendencias"
            /\ tendencia.t_tr = TrendExacto(a.t, b.t, 30)
            /\ tendencia.h_tr = TrendExacto(a.h, b.h, Centi)
            /\ tendencia.p_tr = TrendExacto(a.p, b.p, 30)

\* what does hold of describe_trend: entries before the last two never
\* change the result, and the example of the claim is classified as stated
C15_LastTwoOnly ==
    (tendencia # None /\ Len(serie) >= 2) =>
        /\ tendencia = DescribeTrend(LastN(serie, 2))
        /\ (/\ serie[Len(serie) - 1] = [t |-> 2000, h |-> 5000, p |-> 101000]
            /\ serie[Len(serie)] = [t |-> 2050, h |-> 5020, p |-> 101010])
               => /\ tendencia.t_tr = "subiendo"
                  /\ tendencia.h_tr = "estable"
                  /\ tendencia.p_tr = "estable"

\* the reading one tolerance above the reference has been classified
C15_Boundary ==
    /\ tendencia # None /\ Len(serie) >= 2
    /\ serie[Len(serie) - 1] = [t |-> 2000, h |-> 5000, p |-> 101000]
    /\ serie[Len(serie)] = [t |-> 2030, h |-> 5100, p |-> 101030]
    /\ tendencia.t_tr = "subiendo"
    /\ tendencia.h_tr = "estable" /\ tendencia.p_tr = "estable"

\* C16 as stated: when the destination cannot be opened the process ends:
\* from then on the generator builds no further reading and the update loop
\* starts no further round.
C16_Step ==
    pc[Logger] = "failed" =>
        /\ \A g \in gens : ticks'[g] = ticks[g]
        /\ \A r \in readers : pc[r] = "idle" => pc'[r] = "idle"

C16_Claim == [][C16_Step]_vars

\* the run goes on with logging stopped: readings taken after the failure
C16_KeepsRunning ==
    /\ pc[Logger] = "failed" /\ ~stop
    /\ Len(logWrites) >= 1
    /\ Len(appended) > RowsOf(logWrites)[Len(RowsOf(logWrites))].n + 1
    /\ pc["gui"] = "describe"

====
